---- MODULE Spec2Model ----
(***************************************************************************)
(* A model of src/interpreter.py: the Interpreter class (scanner and       *)
(* evaluator of "Integer ((+|-) Integer)*" lines).                          *)
(*                                                                         *)
(* The variables are the fields of one Interpreter object, the call stack  *)
(* of the running expr() call with the locals of each activation, and the  *)
(* outcome of the call.  Each statement group of the source is an operator *)
(* from a machine state (a record) to the next machine state, and each     *)
(* action applies one of them at its program point.  Characters are        *)
(* one-character strings; text positions are 0-based as in the source, so  *)
(* text[pos] of the source is text[pos + 1] here.                          *)
(***************************************************************************)
EXTENDS Integers, Sequences, FiniteSets

VARIABLES
    text,           \* self.text
    pos,            \* self.pos
    current_char,   \* self.current_char (None at end of input)
    current_token,  \* self.current_token (NoToken before the first scan)
    stack,          \* call stack, innermost activation last
    pc,             \* program point of the innermost activation
    result,         \* expr's local `result`: <<>> while unbound, else <<v>>
    ret_token,      \* the token a get_next_token call hands back
    ret_value,      \* the value term() hands back: <<>> or <<v>>
    outcome,        \* "running", "returned" or "raised"
    value,          \* what expr() returned: <<>> or <<v>>
    exc,            \* class of the exception that left expr(), or None
    raised_at,      \* source line of the raise, or None
    branch,         \* line of the last branch get_next_token took
    expr_branch,    \* line of the last branch the grammar loop took
    call_pos,       \* pos when expr/eat last called get_next_token
    tok_pos,        \* pos at which the last token was classified
    calls           \* number of get_next_token calls made by expr/eat

vars == <<text, pos, current_char, current_token, stack, pc, result,
          ret_token, ret_value, outcome, value, exc, raised_at, branch,
          expr_branch, call_pos, tok_pos, calls>>

(***************************************************************************)
(* Bounds of the model.                                                    *)
(***************************************************************************)
\* longest line over the whole alphabet
MaxLen == 4
\* longest line over digits, '+' and '-' only
MaxArithLen == 5
\* most get_next_token calls a client makes on one Interpreter
MaxScans == 6

(***************************************************************************)
(* Characters and tokens.                                                  *)
(***************************************************************************)
None == "None"

INTEGER == "INTEGER"
PLUS == "PLUS"
MINUS == "MINUS"
MUL == "MUL"
DIV == "DIV"
EOF == "EOF"

\* U+00B2 SUPERSCRIPT TWO: a character for which str.isdigit() is true and
\* which int() rejects.
Sup2 == "sup2"

DecimalDigits == {"0", "1", "2", "3", "4", "5", "6", "7", "8", "9"}

\* str.isdigit(): the decimal digits and the other characters of
\* Numeric_Type Digit, of which Sup2 stands for all.
isdigit(c) == c \in DecimalDigits \cup {Sup2}

DigitValue(c) ==
    CASE c = "0" -> 0 [] c = "1" -> 1 [] c = "2" -> 2 [] c = "3" -> 3
      [] c = "4" -> 4 [] c = "5" -> 5 [] c = "6" -> 6 [] c = "7" -> 7
      [] c = "8" -> 8 [] c = "9" -> 9

\* int(str) on a non-empty string of isdigit characters: the base-10 value,
\* or ValueError when a character is not a decimal digit.
RECURSIVE Base10(_)
Base10(str) ==
    IF str = <<>> THEN 0
    ELSE 10 * Base10(SubSeq(str, 1, Len(str) - 1)) + DigitValue(str[Len(str)])

int(str) ==
    IF str # <<>> /\ \A i \in 1..Len(str) : str[i] \in DecimalDigits
    THEN [ok |-> TRUE, value |-> Base10(str)]
    ELSE [ok |-> FALSE, value |-> 0]

Token(type_, value_) == [type |-> type_, value |-> value_]

\* self.current_token = None
NoToken == Token(None, None)

\* the characters lines are drawn from
Alphabet == {"1", "2", " ", "+", "-", "*", "/", "&", Sup2}
ArithAlphabet == {"1", "2", "+", "-"}

Lines(alphabet, n) == UNION {[1..k -> alphabet] : k \in 1..n}

(***************************************************************************)
(* Activations.  `at` is the line of the call the activation waits on.     *)
(***************************************************************************)
Frame(fn, at, token, lc, token_type) ==
    [fn |-> fn, at |-> at, token |-> token, current_char |-> lc,
     token_type |-> token_type]

ExprFrame(at, token) == Frame("expr", at, token, None, None)
TermFrame(at, token) == Frame("term", at, token, None, None)
EatFrame(at, token_type) == Frame("eat", at, NoToken, None, token_type)
ScanFrame(at, lc) == Frame("get_next_token", at, NoToken, lc, None)
\* a caller of get_next_token other than expr and eat
ClientFrame == Frame("client", None, NoToken, None, None)

Top(s) == s.stack[Len(s.stack)]
Below(s) == SubSeq(s.stack, 1, Len(s.stack) - 1)
SetTop(s, f) == [s EXCEPT !.stack = Append(Below(s), f)]

\* Interpreter.__init__
Construct(line) ==
    [text |-> line, pos |-> 0, current_char |-> line[1],
     current_token |-> NoToken, stack |-> <<>>, pc |-> "expr",
     result |-> <<>>, ret_token |-> NoToken, ret_value |-> <<>>,
     outcome |-> "running", value |-> <<>>, exc |-> None,
     raised_at |-> None, branch |-> None, expr_branch |-> None,
     call_pos |-> 0, tok_pos |-> 0, calls |-> 0]

\* An exception leaves expr(): every activation is unwound.
Raise(s, kind, line) ==
    [s EXCEPT !.outcome = "raised", !.exc = kind, !.raised_at = line,
              !.pc = "done", !.stack = <<>>]

\* error raising one class for the scanner and another for eat
error_two_kinds(s, line) ==
    Raise(s, IF line = "129" THEN "LexError" ELSE "ParseError", line)

\* Interpreter.error, called from `line`
error(s, line) == Raise(s, "Exception", line)

\* advance caching the character the cursor has just left
advance_stale(s) ==
    LET p == s.pos + 1
    IN  [s EXCEPT !.pos = p,
                  !.current_char = IF p > Len(s.text) - 1 THEN None
                                   ELSE s.text[p]]

\* Interpreter.advance
advance(s) ==
    LET p == s.pos + 1
    IN  [s EXCEPT !.pos = p,
                  !.current_char = IF p > Len(s.text) - 1 THEN None
                                   ELSE s.text[p + 1]]

\* Interpreter.integer: the loop, then int(result)
RECURSIVE integer_loop(_, _)
integer_loop(s, digits) ==
    IF s.current_char # None /\ isdigit(s.current_char)
    THEN integer_loop(advance(s), Append(digits, s.current_char))
    ELSE [self |-> s, result |-> digits]

integer(s) ==
    LET r == integer_loop(s, <<>>)
        n == int(r.result)
    IN  [self |-> r.self, ok |-> n.ok, value |-> n.value]

(***************************************************************************)
(* Interpreter.get_next_token.                                             *)
(***************************************************************************)
\* return_token of a scanner that stores the token it returns
return_token_storing(s, token, line) ==
    [s EXCEPT !.ret_token = token, !.pc = "return", !.branch = line,
              !.current_token = token]

\* `return <token>`: the value travels to the caller in ret_token
return_token(s, token, line) ==
    [s EXCEPT !.ret_token = token, !.pc = "return", !.branch = line]

\* get_next_token_enter raising at the end of the text
get_next_token_enter_strict(s) ==
    IF s.pos > Len(s.text) - 1
    THEN error([s EXCEPT !.tok_pos = s.pos], "85")
    ELSE [SetTop(s, ScanFrame(None, s.text[s.pos + 1]))
             EXCEPT !.pc = "get_next_token_loop"]

\* lines 79-89: the end-of-text test and the read of the local current_char
get_next_token_enter(s) ==
    IF s.pos > Len(s.text) - 1
    THEN return_token([s EXCEPT !.tok_pos = s.pos], Token(EOF, None), "85")
    ELSE [SetTop(s, ScanFrame(None, s.text[s.pos + 1]))
             EXCEPT !.pc = "get_next_token_loop"]

\* a space treated as any other unrecognized character
skip_space_rejected(s) == error([s EXCEPT !.tok_pos = s.pos], "129")

\* lines 97-99: skip one space and scan again from the start of the method
skip_space(s) ==
    LET a == advance(s)
    IN  [a EXCEPT !.stack = Append(Append(Below(a),
                                 [Top(a) EXCEPT !.at = "99"]),
                                 ScanFrame(None, None)),
                  !.pc = "get_next_token", !.branch = "99"]

\* lines 101-102: Token(INTEGER, self.integer())
integer_token(s) ==
    LET r == integer(s)
    IN  IF r.ok
        THEN return_token([r.self EXCEPT !.tok_pos = s.pos],
                          Token(INTEGER, r.value), "102")
        ELSE Raise([r.self EXCEPT !.tok_pos = s.pos], "ValueError", "71")

\* lines 104-107: Token(INTEGER, int(current_char)) of the local character
digit_token(s, lc) ==
    LET n == int(<<lc>>)
    IN  IF n.ok
        THEN return_token(advance([s EXCEPT !.tok_pos = s.pos]),
                          Token(INTEGER, n.value), "105")
        ELSE Raise([s EXCEPT !.tok_pos = s.pos], "ValueError", "105")

\* operator_token without its self.advance()
operator_token_unadvanced(s, type_, lc, line) ==
    return_token([s EXCEPT !.tok_pos = s.pos], Token(type_, lc), line)

\* operator_token classifying the character after the operator as well
operator_token_eager(s, type_, lc, line) ==
    LET a == advance([s EXCEPT !.tok_pos = s.pos])
    IN  IF /\ a.current_char # None
           /\ a.current_char # " "
           /\ ~isdigit(a.current_char)
           /\ a.current_char \notin {"+", "-", "*", "/"}
        THEN error(a, "129")
        ELSE return_token(a, Token(type_, lc), line)

\* lines 110-112, 115-117, 120-122, 125-127: a one-character operator token
operator_token(s, type_, lc, line) ==
    return_token(advance([s EXCEPT !.tok_pos = s.pos]), Token(type_, lc), line)

\* lines 95-131: the loop body, taken at most once per activation since every
\* path through it returns or raises
get_next_token_loop(s) ==
    LET lc == Top(s).current_char
    IN  IF s.current_char = None
        THEN return_token([s EXCEPT !.tok_pos = s.pos], Token(EOF, None), "131")
        ELSE IF s.current_char = " " THEN skip_space(s)
        ELSE IF isdigit(s.current_char) THEN integer_token(s)
        ELSE IF isdigit(lc) THEN digit_token(s, lc)
        ELSE IF lc = "+" THEN operator_token(s, PLUS, lc, "110")
        ELSE IF lc = "-" THEN operator_token(s, MINUS, lc, "115")
        ELSE IF lc = "*" THEN operator_token(s, MUL, lc, "120")
        ELSE IF lc = "/" THEN operator_token(s, DIV, lc, "125")
        ELSE error([s EXCEPT !.tok_pos = s.pos], "129")

\* the return statement of an activation of get_next_token: line 99 passes
\* the token of the inner call on; expr and eat go on to their assignment
get_next_token_return(s) ==
    LET b == Below(s)
        caller == b[Len(b)]
    IN  [s EXCEPT !.stack = b,
                  !.pc = IF caller.fn = "get_next_token" THEN "return"
                         ELSE IF caller.fn = "eat" THEN "eat_assign"
                         ELSE IF caller.fn = "expr" THEN "expr_assign"
                         ELSE "client"]

(***************************************************************************)
(* Interpreter.eat and Interpreter.term.                                   *)
(***************************************************************************)
\* a call of get_next_token from line `line` of the innermost activation
call_get_next_token(s, line) ==
    [s EXCEPT !.stack = Append(Append(Below(s), [Top(s) EXCEPT !.at = line]),
                               ScanFrame(None, None)),
              !.pc = "get_next_token", !.call_pos = s.pos,
              !.calls = s.calls + 1]

\* eat without the comparison: the next token is fetched in any case
eat_unchecked(s) == call_get_next_token(s, "139")

\* eat moving the cursor before it raises
eat_advancing(s) ==
    IF s.current_token.type = Top(s).token_type
    THEN call_get_next_token(s, "139")
    ELSE error(advance(s), "141")

\* lines 138-141, up to the call on line 139
eat(s) ==
    IF s.current_token.type = Top(s).token_type
    THEN call_get_next_token(s, "139")
    ELSE error(s, "141")

\* eat returning without the assignment of line 139
eat_assign_dropped(s) ==
    LET b == Below(s)
        caller == b[Len(b)]
    IN  [s EXCEPT !.stack = b,
                  !.pc = IF caller.fn = "term" THEN "term_return"
                         ELSE "expr_call_term"]

\* line 139's assignment, and the return of eat to term or to expr
eat_assign(s) ==
    LET b == Below(s)
        caller == b[Len(b)]
    IN  [s EXCEPT !.current_token = s.ret_token, !.stack = b,
                  !.pc = IF caller.fn = "term" THEN "term_return"
                         ELSE "expr_call_term"]

\* lines 145-146: token = self.current_token; self.eat(INTEGER)
term(s) ==
    [s EXCEPT !.stack = Append(Append(Below(s),
                               TermFrame("146", s.current_token)),
                               EatFrame(None, INTEGER)),
              !.pc = "eat"]

\* line 147: return token.value
term_return(s) ==
    [s EXCEPT !.ret_value = <<Top(s).token.value>>, !.stack = Below(s),
              !.pc = "expr_assign_result"]

(***************************************************************************)
(* Interpreter.expr.                                                       *)
(***************************************************************************)
\* the call of expr(), and line 152 up to its call of get_next_token
expr(s) ==
    call_get_next_token([s EXCEPT !.stack = <<ExprFrame(None, NoToken)>>],
                        "152")

\* line 152's assignment
expr_assign(s) ==
    [s EXCEPT !.current_token = s.ret_token, !.pc = "expr_call_term"]

\* the line whose self.term() follows the call that just returned
TermLine(at) ==
    CASE at = "152" -> "154" [] at = "158" -> "159" [] at = "161" -> "162"
      [] at = "164" -> "165" [] at = "167" -> "168"

\* the calls self.term() of lines 154, 159, 162, 165 and 168
expr_call_term(s) ==
    [s EXCEPT !.stack = Append(Append(Below(s),
                               [Top(s) EXCEPT !.at = TermLine(Top(s).at)]),
                               TermFrame(None, NoToken)),
              !.pc = "term"]

\* expr_assign_result with the operands of the subtraction exchanged
expr_assign_result_swapped(s) ==
    LET at == Top(s).at
        v == s.ret_value[1]
    IN  [s EXCEPT !.result = IF at = "154" THEN <<v>>
                             ELSE IF at = "159" THEN <<s.result[1] + v>>
                             ELSE <<v - s.result[1]>>,
                  !.pc = "expr_loop"]

\* the assignments to result of lines 154, 159, 162, 165 and 168
expr_assign_result(s) ==
    LET at == Top(s).at
        v == s.ret_value[1]
    IN  [s EXCEPT !.result = IF at = "154" THEN <<v>>
                             ELSE IF at = "159" THEN <<s.result[1] + v>>
                             ELSE <<s.result[1] - v>>,
                  !.pc = "expr_loop"]

\* self.eat(<kind>) on line `line` of the grammar loop
expr_call_eat(s, token, kind, line) ==
    [s EXCEPT !.stack = Append(Append(Below(s), ExprFrame(line, token)),
                               EatFrame(None, kind)),
              !.pc = "eat", !.expr_branch = line]

\* LoopKinds with the operators the dispatch below also names
LoopKindsAll == {PLUS, MINUS, MUL, DIV}

\* LoopKinds of a loop that runs until the end of the input
LoopKindsToEOF == {INTEGER, PLUS, MINUS, MUL, DIV}

\* line 155: the kinds of token that continue the loop
LoopKinds == {PLUS, MINUS}

\* expr_loop accepting no token but EOF after the last operand
expr_loop_strict(s) ==
    IF s.current_token.type \in LoopKinds
    THEN LET token == s.current_token
         IN  IF token.type = PLUS THEN expr_call_eat(s, token, PLUS, "158")
             ELSE expr_call_eat(s, token, MINUS, "161")
    ELSE IF s.current_token.type = EOF
    THEN [s EXCEPT !.outcome = "returned", !.value = s.result,
                   !.pc = "done", !.stack = <<>>, !.expr_branch = "170"]
    ELSE error(s, "170")

\* lines 155-170: the loop test, the dispatch on the operator, the return
expr_loop(s) ==
    IF s.current_token.type \in LoopKinds
    THEN LET token == s.current_token
         IN  IF token.type = PLUS THEN expr_call_eat(s, token, PLUS, "158")
             ELSE IF token.type = MINUS
             THEN expr_call_eat(s, token, MINUS, "161")
             ELSE IF token.type = MUL
             THEN expr_call_eat(s, token, MUL, "164")
             ELSE IF token.type = DIV
             THEN expr_call_eat(s, token, DIV, "167")
             ELSE SetTop(s, ExprFrame(Top(s).at, token))
    ELSE [s EXCEPT !.outcome = "returned", !.value = s.result,
                   !.pc = "done", !.stack = <<>>, !.expr_branch = "170"]

(***************************************************************************)
(* The machine.                                                            *)
(***************************************************************************)
State ==
    [text |-> text, pos |-> pos, current_char |-> current_char,
     current_token |-> current_token, stack |-> stack, pc |-> pc,
     result |-> result, ret_token |-> ret_token, ret_value |-> ret_value,
     outcome |-> outcome, value |-> value, exc |-> exc,
     raised_at |-> raised_at, branch |-> branch,
     expr_branch |-> expr_branch, call_pos |-> call_pos,
     tok_pos |-> tok_pos, calls |-> calls]

Becomes(n) ==
    /\ text' = n.text
    /\ pos' = n.pos
    /\ current_char' = n.current_char
    /\ current_token' = n.current_token
    /\ stack' = n.stack
    /\ pc' = n.pc
    /\ result' = n.result
    /\ ret_token' = n.ret_token
    /\ ret_value' = n.ret_value
    /\ outcome' = n.outcome
    /\ value' = n.value
    /\ exc' = n.exc
    /\ raised_at' = n.raised_at
    /\ branch' = n.branch
    /\ expr_branch' = n.expr_branch
    /\ call_pos' = n.call_pos
    /\ tok_pos' = n.tok_pos
    /\ calls' = n.calls

Is(n) ==
    /\ text = n.text
    /\ pos = n.pos
    /\ current_char = n.current_char
    /\ current_token = n.current_token
    /\ stack = n.stack
    /\ pc = n.pc
    /\ result = n.result
    /\ ret_token = n.ret_token
    /\ ret_value = n.ret_value
    /\ outcome = n.outcome
    /\ value = n.value
    /\ exc = n.exc
    /\ raised_at = n.raised_at
    /\ branch = n.branch
    /\ expr_branch = n.expr_branch
    /\ call_pos = n.call_pos
    /\ tok_pos = n.tok_pos
    /\ calls = n.calls

\* one statement group of the running call
Step(s) ==
    CASE s.pc = "expr" -> expr(s)
      [] s.pc = "get_next_token" -> get_next_token_enter(s)
      [] s.pc = "get_next_token_loop" -> get_next_token_loop(s)
      [] s.pc = "return" -> get_next_token_return(s)
      [] s.pc = "expr_assign" -> expr_assign(s)
      [] s.pc = "expr_call_term" -> expr_call_term(s)
      [] s.pc = "term" -> term(s)
      [] s.pc = "eat" -> eat(s)
      [] s.pc = "eat_assign" -> eat_assign(s)
      [] s.pc = "term_return" -> term_return(s)
      [] s.pc = "expr_assign_result" -> expr_assign_result(s)
      [] s.pc = "expr_loop" -> expr_loop(s)

\* Interpreter(line).expr() run to its end, in at most `fuel` steps
RECURSIVE RunFrom(_, _)
RunFrom(s, fuel) ==
    IF s.pc = "done" \/ fuel = 0 THEN s ELSE RunFrom(Step(s), fuel - 1)

\* no run on a line of n characters takes more steps than this
Fuel(line) == 16 * (Len(line) + 1)

Run(line) == RunFrom(Construct(line), Fuel(line))

\* main(): a line the caller passes is non-empty (lines 183-185)
Init ==
    \E line \in Lines(Alphabet, MaxLen) \cup Lines(ArithAlphabet, MaxArithLen) :
        Is(Construct(line))

Expr == pc = "expr" /\ Becomes(expr(State))

GetNextToken == pc = "get_next_token" /\ Becomes(get_next_token_enter(State))

GetNextTokenLoop ==
    pc = "get_next_token_loop" /\ Becomes(get_next_token_loop(State))

GetNextTokenReturn == pc = "return" /\ Becomes(get_next_token_return(State))

ExprAssign == pc = "expr_assign" /\ Becomes(expr_assign(State))

ExprCallTerm == pc = "expr_call_term" /\ Becomes(expr_call_term(State))

Term == pc = "term" /\ Becomes(term(State))

Eat == pc = "eat" /\ Becomes(eat(State))

EatAssign == pc = "eat_assign" /\ Becomes(eat_assign(State))

TermReturn == pc = "term_return" /\ Becomes(term_return(State))

ExprAssignResult ==
    pc = "expr_assign_result" /\ Becomes(expr_assign_result(State))

ExprLoop == pc = "expr_loop" /\ Becomes(expr_loop(State))

Next ==
    \/ Expr
    \/ GetNextToken
    \/ GetNextTokenLoop
    \/ GetNextTokenReturn
    \/ ExprAssign
    \/ ExprCallTerm
    \/ Term
    \/ Eat
    \/ EatAssign
    \/ TermReturn
    \/ ExprAssignResult
    \/ ExprLoop

Spec == Init /\ [][Next]_vars

(***************************************************************************)
(* The scanner on its own: a client that calls get_next_token over and     *)
(* over on one Interpreter, going on after a call that raised.             *)
(***************************************************************************)
InitScan ==
    \E line \in Lines(Alphabet, MaxLen) \cup Lines(ArithAlphabet, MaxArithLen) :
        Is([Construct(line) EXCEPT !.pc = "client",
                                   !.stack = <<ClientFrame>>])

ClientCall ==
    /\ pc = "client"
    /\ calls < MaxScans
    /\ Becomes(call_get_next_token(State, "client"))

ClientCatch ==
    /\ pc = "done"
    /\ outcome = "raised"
    /\ Becomes([State EXCEPT !.pc = "client", !.stack = <<ClientFrame>>,
                             !.outcome = "running", !.ret_token = NoToken])

NextScan ==
    \/ ClientCall
    \/ ClientCatch
    \/ GetNextToken
    \/ GetNextTokenLoop
    \/ GetNextTokenReturn

SpecScan == InitScan /\ [][NextScan]_vars

(***************************************************************************)
(* Reference definitions the properties are stated with.                   *)
(***************************************************************************)
Done == pc = "done"
Returned == pc = "done" /\ outcome = "returned"
Raised == pc = "done" /\ outcome = "raised"

IsOp(c) == c \in {"+", "-"}

\* a line n0 op1 n1 ... of decimal numerals separated by '+' or '-'
WellFormed(line) ==
    /\ line # <<>>
    /\ \A i \in 1..Len(line) : line[i] \in DecimalDigits \/ IsOp(line[i])
    /\ ~IsOp(line[1])
    /\ ~IsOp(line[Len(line)])
    /\ \A i \in 1..(Len(line) - 1) : ~(IsOp(line[i]) /\ IsOp(line[i + 1]))

RECURSIVE Pow10(_)
Pow10(n) == IF n = 0 THEN 1 ELSE 10 * Pow10(n - 1)

\* the number a decimal numeral denotes, by place value
RECURSIVE Numeral(_)
Numeral(d) ==
    IF d = <<>> THEN 0
    ELSE DigitValue(d[1]) * Pow10(Len(d) - 1) + Numeral(Tail(d))

NumOps(line) == Cardinality({i \in 1..Len(line) : IsOp(line[i])})

LastOp(line) ==
    LET ops == {i \in 1..Len(line) : IsOp(line[i])}
    IN  CHOOSE k \in ops : \A j \in ops : j <= k

\* ((n0 op1 n1) op2 n2) ... : the last operator applies to everything before
RECURSIVE LeftFold(_)
LeftFold(line) ==
    IF NumOps(line) = 0 THEN Numeral(line)
    ELSE LET k == LastOp(line)
             left == LeftFold(SubSeq(line, 1, k - 1))
             right == Numeral(SubSeq(line, k + 1, Len(line)))
         IN  IF line[k] = "+" THEN left + right ELSE left - right

(***************************************************************************)
(* C1: on a line n0 op1 n1 op2 n2 ... of decimal numerals separated by '+' *)
(* or '-', expr() returns the strict left-to-right fold                    *)
(* ((n0 op1 n1) op2 n2) ...                                                *)
(***************************************************************************)
C1_LeftFold ==
    (Done /\ WellFormed(text)) =>
        (outcome = "returned" /\ value = <<LeftFold(text)>>)

\* a line of three operands whose fold differs from the right-to-left
\* grouping has been evaluated: 1-2+1 is 0, and 1-(2+1) is -2
C1_Witness ==
    /\ Returned
    /\ text = <<"1", "-", "2", "+", "1">>
    /\ value = <<0>>

(***************************************************************************)
(* C2: when the current token at the top of the grammar loop is MUL or DIV *)
(* expr() returns at once the result accumulated so far, without an error: *)
(* that step scans nothing and eats nothing, and the value returned is the *)
(* value of the line cut before the operator and of the line cut after it. *)
(***************************************************************************)
C2_EarlyStop ==
    [][(pc = "expr_loop" /\ current_token.type \in {MUL, DIV}) =>
          /\ pc' = "done"
          /\ outcome' = "returned"
          /\ exc' = None
          /\ value' = result
          /\ pos' = pos
          /\ current_char' = current_char
          /\ current_token'.type = current_token.type
          /\ current_token'.value = current_token.value
          /\ calls' = calls
          /\ tok_pos = pos - 1
          /\ text[pos] \in {"*", "/"}
          /\ Run(SubSeq(text, 1, pos - 1)).value = result
          /\ Run(SubSeq(text, 1, pos)).value = result]_vars

\* a line with input after the '*' or '/' has returned at that operator
C2_Witness ==
    /\ Returned
    /\ current_token.type \in {MUL, DIV}
    /\ pos < Len(text)
    /\ text[pos + 1] \in {"1", "2", "+"}
    /\ value = result

(***************************************************************************)
(* C3: expr() fails and returns nothing whenever the token the grammar     *)
(* requires is not the token produced: eat(INTEGER), called for the first  *)
(* token of the line and for the token after a consumed PLUS or MINUS,     *)
(* raises on any current token that is not an INTEGER, and a failed run    *)
(* returns no value; a line of spaces only fails on its EOF token.         *)
(***************************************************************************)
OnlySpaces(line) == \A i \in 1..Len(line) : line[i] = " "

C3_Mismatch ==
    /\ [](Raised => value = <<>>)
    /\ [](Done /\ OnlySpaces(text) =>
            outcome = "raised" /\ raised_at = "141"
            /\ current_token.type = EOF)
    /\ [][(pc = "eat" /\ stack[Len(stack)].token_type = INTEGER
           /\ current_token.type # INTEGER) =>
             /\ pc' = "done"
             /\ outcome' = "raised"
             /\ raised_at' = "141"
             /\ value' = <<>>]_vars

\* the token after a consumed operator was another operator, and eat raised
C3_Witness ==
    /\ Raised
    /\ raised_at = "141"
    /\ result # <<>>
    /\ expr_branch \in {"158", "161"}
    /\ current_token.type \in {PLUS, MINUS, MUL, DIV}
    /\ value = <<>>

(***************************************************************************)
(* C4: when get_next_token, past any spaces, finds under the cursor a      *)
(* character that is neither a decimal digit nor one of + - * /, the call  *)
(* fails: no token is returned, the cursor stays on that character, and    *)
(* expr() yields no result.                                                *)
(***************************************************************************)
Operators == {"+", "-", "*", "/"}

C4_LexError ==
    [][(pc = "get_next_token_loop" /\ current_char # None
        /\ current_char # " " /\ current_char \notin DecimalDigits
        /\ current_char \notin Operators) =>
          /\ pc' = "done"
          /\ outcome' = "raised"
          /\ value' = <<>>
          /\ ret_token'.type = ret_token.type
          /\ ret_token'.value = ret_token.value
          /\ pos' = pos
          /\ current_char' = current_char]_vars

\* C4 for the characters str.isdigit() rejects: these do fail on line 129
\* with the cursor unmoved
C4_Unrecognized ==
    [][(pc = "get_next_token_loop" /\ current_char # None
        /\ current_char # " " /\ ~isdigit(current_char)
        /\ current_char \notin Operators) =>
          /\ pc' = "done"
          /\ outcome' = "raised"
          /\ raised_at' = "129"
          /\ value' = <<>>
          /\ ret_token'.type = ret_token.type
          /\ ret_token'.value = ret_token.value
          /\ pos' = pos
          /\ current_char' = current_char]_vars

InsertSpace(line, i) ==
    SubSeq(line, 1, i) \o <<" ">> \o SubSeq(line, i + 1, Len(line))

\* position i lies inside a run of digits, a digit being what the scanner
\* takes for one (str.isdigit)
InsideDigits(line, i) ==
    /\ 1 <= i
    /\ i < Len(line)
    /\ isdigit(line[i])
    /\ isdigit(line[i + 1])

C7_Cursor ==
    /\ [](0 <= pos /\ pos <= Len(text))
    /\ [][pos' >= pos]_vars
    /\ [][(pc = "get_next_token" /\ pos = Len(text)) =>
             /\ pc' = "return"
             /\ ret_token'.type = EOF
             /\ ret_token'.value = None
             /\ pos' = pos]_vars
    /\ [][(pc = "return" /\ call_pos = Len(text)) =>
             /\ ret_token'.type = EOF
             /\ pos' = call_pos]_vars

\* on the line "1" a third call, the second one at the end of the text,
\* has returned EOF
C7_Witness ==
    /\ text = <<"1">>
    /\ pc = "client"
    /\ calls = 3
    /\ ret_token.type = EOF
    /\ call_pos = 1
    /\ pos = 1

(***************************************************************************)
(* C8: each get_next_token call leaves the cursor just past the token it   *)
(* returns (having skipped only spaces before it), and does not move the   *)
(* cursor at all when it returns EOF.                                      *)
(***************************************************************************)
\* a get_next_token call of expr, eat or the client has just returned
AfterCall ==
    /\ pc \in {"client", "expr_assign", "eat_assign"}
    /\ ret_token.type # None

\* the characters of the text from 0-based position a up to b, b excluded
Slice(a, b) == SubSeq(text, a + 1, b)

SkippedSpaces == \A i \in (call_pos + 1)..tok_pos : text[i] = " "

PastToken ==
    /\ ret_token.type = INTEGER =>
         /\ pos > tok_pos
         /\ \A i \in (tok_pos + 1)..pos : text[i] \in DecimalDigits
         /\ ret_token.value = Numeral(Slice(tok_pos, pos))
    /\ ret_token.type \in {PLUS, MINUS, MUL, DIV} =>
         /\ pos = tok_pos + 1
         /\ Slice(tok_pos, pos) = <<ret_token.value>>

C8_PastToken ==
    AfterCall =>
        /\ call_pos <= tok_pos
        /\ SkippedSpaces
        /\ PastToken
        /\ ret_token.type = EOF => pos = call_pos

(***************************************************************************)
(* C8 as amended: a call that returns a token skips the spaces before it   *)
(* and leaves the cursor just past the token; a call that returns EOF      *)
(* moves the cursor over the spaces that remain, to the end of the text,   *)
(* and not at all only when the cursor was at the end already.             *)
(***************************************************************************)
C8_PastTokenOrSpaces ==
    AfterCall =>
        /\ call_pos <= tok_pos
        /\ SkippedSpaces
        /\ PastToken
        /\ ret_token.type = EOF => (tok_pos = Len(text) /\ pos = Len(text))
        /\ ret_token.type # EOF => tok_pos < Len(text)

\* a call made before trailing spaces has returned EOF with the cursor moved
C8_Witness ==
    /\ AfterCall
    /\ ret_token.type = EOF
    /\ call_pos > 0
    /\ call_pos < pos
    /\ pos = Len(text)

(***************************************************************************)
(* C9: eat(kind) with a current token of that kind requests one token from *)
(* get_next_token and makes it the current token; with a current token of  *)
(* another kind it raises and leaves current_token, pos and current_char   *)
(* as they were.                                                           *)
(***************************************************************************)
C9_Eat ==
    /\ [][(pc = "eat"
           /\ current_token.type # stack[Len(stack)].token_type) =>
             /\ pc' = "done"
             /\ outcome' = "raised"
             /\ raised_at' = "141"
             /\ current_token'.type = current_token.type
             /\ current_token'.value = current_token.value
             /\ pos' = pos
             /\ current_char' = current_char
             /\ calls' = calls]_vars
    /\ [][(pc = "eat"
           /\ current_token.type = stack[Len(stack)].token_type) =>
             /\ pc' = "get_next_token"
             /\ outcome' = "running"
             /\ calls' = calls + 1
             /\ current_token'.type = current_token.type
             /\ current_token'.value = current_token.value
             /\ pos' = pos]_vars
    /\ [][pc = "eat_assign" =>
             /\ stack[Len(stack)].fn = "eat"
             /\ current_token'.type = ret_token.type
             /\ current_token'.value = ret_token.value
             /\ calls' = calls
             /\ pos' = pos]_vars
    /\ [][calls' # calls => pc \in {"expr", "eat"}]_vars

\* eat(INTEGER) on a leading operator has raised with the cursor where the
\* scan of that operator left it
C9_Witness ==
    /\ Raised
    /\ raised_at = "141"
    /\ calls = 1
    /\ current_token.type \in {PLUS, MINUS}
    /\ pos = 1
    /\ Len(text) > 1
    /\ current_char = text[2]

(***************************************************************************)
(* C10: with a decimal digit under the cursor get_next_token consumes the  *)
(* maximal run of decimal digits from the cursor, returns one INTEGER      *)
(* token with the base-10 value of that run, and leaves the cursor on the  *)
(* first character after the run or at the end of the text.                *)
(***************************************************************************)
\* the length of the run of characters of `set` from 1-based index i
RECURSIVE RunLength(_, _, _)
RunLength(line, i, set) ==
    IF i <= Len(line) /\ line[i] \in set
    THEN 1 + RunLength(line, i + 1, set)
    ELSE 0

C10_MaximalRun ==
    [][(pc = "get_next_token_loop" /\ current_char \in DecimalDigits) =>
          LET n == RunLength(text, pos + 1, DecimalDigits)
          IN  /\ pc' = "return"
              /\ ret_token'.type = INTEGER
              /\ ret_token'.value = Numeral(Slice(pos, pos + n))
              /\ pos' = pos + n
              /\ current_char' = IF pos + n = Len(text) THEN None
                                 ELSE text[pos + n + 1]]_vars

\* C10 where no other str.isdigit() character follows the run directly
C10_DecimalRun ==
    [][(pc = "get_next_token_loop" /\ current_char \in DecimalDigits) =>
          LET n == RunLength(text, pos + 1, DecimalDigits)
              m == RunLength(text, pos + 1, DecimalDigits \cup {Sup2})
          IN  IF m = n
              THEN /\ pc' = "return"
                   /\ ret_token'.type = INTEGER
                   /\ ret_token'.value = Numeral(Slice(pos, pos + n))
                   /\ pos' = pos + n
                   /\ current_char' = IF pos + n = Len(text) THEN None
                                      ELSE text[pos + n + 1]
              ELSE /\ pc' = "done"
                   /\ outcome' = "raised"
                   /\ exc' = "ValueError"
                   /\ pos' = pos + m]_vars

(***************************************************************************)
(* C12: on every non-empty line expr() comes to an end with one outcome,   *)
(* a value or a failure: from every state the run reaches, it ends within  *)
(* Fuel(text) further statements; each entry of get_next_token after a     *)
(* skipped space starts one character further, each call that returns a    *)
(* token has moved the cursor, and each turn of the grammar loop makes a   *)
(* further call, of which there are never more than the cursor position    *)
(* plus one.                                                               *)
(***************************************************************************)
OneOutcome ==
    \/ outcome = "returned" /\ Len(value) = 1 /\ exc = None
    \/ outcome = "raised" /\ value = <<>> /\ exc # None

C12_Terminates ==
    /\ [](RunFrom(State, Fuel(text)).pc = "done")
    /\ [](Done => OneOutcome)
    /\ [](~Done => outcome = "running" /\ value = <<>> /\ exc = None)
    /\ [](calls <= pos + 1 /\ Len(stack) <= pos + 4)
    /\ [](AfterCall /\ ret_token.type # EOF => pos > call_pos)
    /\ [][(pc = "get_next_token_loop" /\ pc' = "get_next_token") =>
             pos' = pos + 1]_vars
    /\ [][(pc = "expr_loop" /\ ~Done') =>
             (pc' = "eat" /\ current_token.type \in {PLUS, MINUS}
              /\ pos < Len(text) + 1)]_vars
    /\ [][(pc = "eat" /\ ~Done') => calls' = calls + 1]_vars

\* a line with two spaces, skipped by re-entering get_next_token twice, has
\* come to its end with a value after two calls
C12_Witness ==
    /\ Returned
    /\ text = <<"1", " ", " ", "*">>
    /\ value = <<1>>
    /\ calls = 2

(***************************************************************************)
(* C13: from line 152 on, between eat calls current_token is the token     *)
(* that follows the last token consumed: after k successful eat calls it   *)
(* is token k + 1 of the token stream of the line, and the token whose     *)
(* value is folded into the result is the one that was current before the  *)
(* eat.                                                                    *)
(***************************************************************************)
\* the token stream of a line from 1-based index i, read off the text: spaces
\* separate, a run of decimal digits is one INTEGER, the stream ends with
\* EOF or before a character that starts no token
RECURSIVE TokenStream(_, _)
TokenStream(line, i) ==
    IF i > Len(line) THEN <<Token(EOF, None)>>
    ELSE IF line[i] = " " THEN TokenStream(line, i + 1)
    ELSE IF line[i] \in DecimalDigits
    THEN LET n == RunLength(line, i, DecimalDigits)
         IN  <<Token(INTEGER, Numeral(SubSeq(line, i, i + n - 1)))>>
                 \o TokenStream(line, i + n)
    ELSE IF line[i] = "+" THEN <<Token(PLUS, "+")>> \o TokenStream(line, i + 1)
    ELSE IF line[i] = "-" THEN <<Token(MINUS, "-")>> \o TokenStream(line, i + 1)
    ELSE IF line[i] = "*" THEN <<Token(MUL, "*")>> \o TokenStream(line, i + 1)
    ELSE IF line[i] = "/" THEN <<Token(DIV, "/")>> \o TokenStream(line, i + 1)
    ELSE <<>>

SameToken(a, b) == a.type = b.type /\ a.value = b.value

\* token k of the line is token `tok`
IsToken(k, tok) ==
    LET stream == TokenStream(text, 1)
    IN  1 <= k /\ k <= Len(stream) /\ SameToken(stream[k], tok)

\* the program points of expr, term and eat outside a get_next_token call
\* and its assignment: calls - 1 eat calls have succeeded
BetweenEats ==
    \/ pc \in {"expr_call_term", "term", "eat", "term_return",
               "expr_assign_result", "expr_loop"}
    \/ Returned
    \/ Raised /\ raised_at = "141"

C13_CurrentToken ==
    /\ BetweenEats => IsToken(calls, current_token)
    /\ pc = "term_return" =>
         /\ stack[Len(stack)].token.type = INTEGER
         /\ IsToken(calls - 1, stack[Len(stack)].token)
    /\ pc = "expr_assign_result" =>
         /\ IsToken(calls - 1, Token(INTEGER, ret_value[1]))
         /\ stack[Len(stack)].at = "154" => calls = 2
    /\ pc = "expr_loop" =>
         /\ Len(result) = 1
         /\ IsToken(calls - 1, Token(INTEGER, ret_value[1]))

\* on "1+2" the third eat has succeeded: the current token is the fourth of
\* the line, EOF, and the value about to be folded is that of the third
C13_Witness ==
    /\ pc = "expr_assign_result"
    /\ text = <<"1", "+", "2">>
    /\ calls = 4
    /\ current_token.type = EOF
    /\ ret_value = <<2>>
    /\ result = <<1>>

(***************************************************************************)
(* C14: get_next_token changes only the scan position, pos and             *)
(* current_char: no statement of a call, returning or failing, changes the *)
(* text, the current token or the accumulated result.                      *)
(***************************************************************************)
InGetNextToken == pc \in {"get_next_token", "get_next_token_loop", "return"}

C14_ScanOnly ==
    [][InGetNextToken =>
          /\ text' = text
          /\ SameToken(current_token', current_token)
          /\ result' = result
          /\ ret_value' = ret_value
          /\ value' = value]_vars

\* a call that skipped a space and then failed has moved the cursor and
\* left the current token, a consumed operator's successor, and the result
C14_Witness ==
    /\ Raised
    /\ raised_at = "129"
    /\ pos > call_pos
    /\ current_token.type \in {PLUS, MINUS}
    /\ result = <<1>>
    /\ text[1] = "1"

(***************************************************************************)
(* C15: the duplicate branches are never taken: the grammar loop never     *)
(* takes its MUL or DIV branch (lines 164 and 167), and get_next_token     *)
(* never takes the one-digit INTEGER branch (line 105) nor the return      *)
(* after its loop (line 131).                                              *)
(***************************************************************************)
C15_DeadBranches ==
    /\ expr_branch \notin {"164", "167"}
    /\ branch \notin {"105", "131"}
    /\ raised_at # "105"
    /\ \A i \in 1..Len(stack) : stack[i].at \notin {"164", "165", "167", "168"}

\* a digit and a '*' or '/' have been scanned by the branches of lines 102
\* and 120/125, and the loop has ended on that operator by line 170
C15_Witness ==
    /\ Returned
    /\ expr_branch = "170"
    /\ branch \in {"120", "125"}
    /\ current_token.type \in {MUL, DIV}
    /\ calls = 2

(***************************************************************************)
(* C16: the grammar loop ends the run with the result so far at every      *)
(* current token that is neither PLUS nor MINUS; an INTEGER that follows a *)
(* consumed INTEGER ("1 2") is such a token: no error, and the value is    *)
(* that of the line cut before the second integer.                         *)
(***************************************************************************)
C16_StopsAtAnyOther ==
    /\ [](pc = "expr_loop" =>
            current_token.type \in {INTEGER, PLUS, MINUS, MUL, DIV, EOF})
    /\ [][(pc = "expr_loop" /\ current_token.type \notin {PLUS, MINUS}) =>
             /\ pc' = "done"
             /\ outcome' = "returned"
             /\ exc' = None
             /\ value' = result
             /\ pos' = pos]_vars
    /\ [][(pc = "expr_loop" /\ current_token.type = INTEGER) =>
             /\ outcome' = "returned"
             /\ text[tok_pos] = " "
             /\ Run(Slice(0, tok_pos)).value = value']_vars

\* "1 2" and the like: the run has returned the first integer on finding a
\* second one
C16_Witness ==
    /\ Returned
    /\ current_token.type = INTEGER
    /\ calls = 2
    /\ value = <<1>>
    /\ current_token.value = 2

(***************************************************************************)
(* C17: the evaluator scans one token beyond the last consumed one.  A run *)
(* fails at line 129 exactly when a get_next_token call, after its spaces, *)
(* finds an unrecognized character at the cursor; a run that returned on a *)
(* token other than EOF has scanned nothing after that token, so an        *)
(* unrecognized character put there changes nothing.  "1&" and "1 &" fail; *)
(* "1*&" and "1 2&" return 1.                                              *)
(***************************************************************************)
Unrecognized(c) ==
    c # None /\ c # " " /\ ~isdigit(c) /\ c \notin Operators

C17_Lookahead ==
    /\ [][(pc = "get_next_token_loop" /\ Unrecognized(current_char)) =>
             (outcome' = "raised" /\ raised_at' = "129")]_vars
    /\ [](Raised /\ raised_at = "129" =>
            /\ pos < Len(text)
            /\ Unrecognized(text[pos + 1])
            /\ \A i \in (call_pos + 1)..pos : text[i] = " ")
    /\ [](Returned =>
            /\ SameToken(current_token, ret_token)
            /\ SkippedSpaces
            /\ PastToken
            /\ \A i \in 1..pos : ~Unrecognized(text[i])
            /\ current_token.type = EOF => pos = Len(text)
            /\ current_token.type # EOF =>
                 LET r == Run(Slice(0, pos) \o <<"&">>)
                 IN  r.outcome = "returned" /\ r.value = value /\ r.pos = pos)
    /\ [](Done /\ text \in {<<"1", "&">>, <<"1", " ", "&">>} =>
            Raised /\ raised_at = "129")
    /\ [](Done /\ text \in {<<"1", "*", "&">>, <<"1", " ", "2", "&">>} =>
            Returned /\ value = <<1>>)

\* "1*&" has returned 1 with the cursor before the '&'
C17_Witness ==
    /\ Returned
    /\ text = <<"1", "*", "&">>
    /\ value = <<1>>
    /\ pos = 2
    /\ current_token.type = MUL

(***************************************************************************)
(* C18: the cached character agrees with the cursor in every state:        *)
(* current_char is text[pos] when pos < len(text) and None exactly when    *)
(* pos >= len(text); at the classification point of get_next_token the     *)
(* local character equals the cached one, and an operator token is the one *)
(* of the character under the cursor.                                      *)
(***************************************************************************)
CharAtCursor ==
    /\ pos < Len(text) => current_char = text[pos + 1]
    /\ current_char = None <=> pos >= Len(text)

C18_CachedChar ==
    /\ [](Len(text) > 0 => CharAtCursor)
    /\ [](pc = "get_next_token_loop" =>
            /\ pos < Len(text)
            /\ stack[Len(stack)].current_char = current_char
            /\ stack[Len(stack)].current_char = text[pos + 1])
    /\ [][(pc = "get_next_token_loop" /\ text[pos + 1] \in Operators) =>
             /\ ret_token'.type \in {PLUS, MINUS, MUL, DIV}
             /\ ret_token'.value = text[pos + 1]
             /\ pos' = pos + 1]_vars

\* a later call is at its classification point, on an operator that follows
\* a scanned token
C18_Witness ==
    /\ pc = "get_next_token_loop"
    /\ calls >= 2
    /\ pos > 0
    /\ text[pos] # " "
    /\ stack[Len(stack)].current_char \in Operators
    /\ current_char = text[pos + 1]

====
